---------------------------- MODULE Spec2Model ----------------------------
(***************************************************************************)
(* PyVOLCANS (src/pyvolcans/pyvolcans_func.py): the catalogue lookups, the *)
(* weight normaliser, the weighted combination of the five analogy         *)
(* matrices, the analogue ranking and the percentile evaluation.           *)
(*                                                                         *)
(* Numbers.  Weights and analogy values are kept in fixed point, in tenths:*)
(* One (10) stands for 1.0 and DefaultWeight (2) for 0.2.  A product       *)
(* weight * cell is therefore in hundredths (One * One stands for 1.0).    *)
(* Sums and comparisons are exact; IEEE rounding of the float sum is not   *)
(* modelled.                                                               *)
(*                                                                         *)
(* Indices.  Catalogue rows and matrix rows/columns are 0-based, as in the *)
(* code (functions over 0..n-1).  Python lists and arrays that the code    *)
(* builds (top_idx, the result table) are sequences: Python position k is  *)
(* position k+1 here.                                                      *)
(*                                                                         *)
(* Optional values.  None is <<>> and a present value v is <<v>>.          *)
(***************************************************************************)
EXTENDS Integers, Sequences, FiniteSets, TLC

VARIABLES
    VOLCANO_NAMES,            \* the catalogue: row index -> [name, smithsonian_id]
    ANALOGY_MATRIX,           \* criterion -> single-criterion analogy matrix
    weighted_analogy_matrix,  \* the combined matrix handed to the ranker / evaluator
    args_dict,                \* the caller's weight mapping (a mutable dict object)
    call,                     \* the call being made: function name and arguments
    ret,                      \* what the call returned or wrote (None until it does)
    err,                      \* the exception the call raised (None if none)
    pc                        \* "start", "weights" (after the normaliser), "done"

vars == <<VOLCANO_NAMES, ANALOGY_MATRIX, weighted_analogy_matrix,
          args_dict, call, ret, err, pc>>

---------------------------------------------------------------------------
(* Bounds of the model *)

\* number of catalogue rows in the lookup, ranking and percentile models
NVolc == 3
\* side of the single-criterion matrices in the combiner model
Dim == 2
\* largest requested count of analogues
MaxCount == 3
\* longest list of a priori volcanoes
MaxList == 2

(* Program constants, in tenths *)
One == 10
DefaultWeight == 2
\* np.linspace(0, 100, 101): the percentiles 0..100
PctMax == 100

None == <<>>
Some(v) == <<v>>

Min(a, b) == IF a <= b THEN a ELSE b
Max(a, b) == IF a >= b THEN a ELSE b
Abs(a) == IF a < 0 THEN 0 - a ELSE a

RECURSIVE SumOver(_, _)
\* sum of f[k] over the keys k in S
SumOver(S, f) ==
    IF S = {} THEN 0
    ELSE LET k == CHOOSE x \in S : TRUE IN f[k] + SumOver(S \ {k}, f)

Criteria == {"tectonic_setting", "geochemistry", "morphology",
             "eruption_size", "eruption_style"}

PyvolcansError(msg) == [type |-> "PyvolcansError", msg |-> msg]

---------------------------------------------------------------------------
(* Weight Normalizer *)

\* the weights a caller may pass: -0.5, 0, 0.5, 1, 1.5, or nothing
WeightValues == {0 - (One \div 2), 0, One \div 2, One, One + (One \div 2)}
OptWeights == {None} \cup {Some(w) : w \in WeightValues}

WeightSumMsg == "Sum of weights is different from 1!"

\* faulty variant: the check of the sum is dropped
set_weights_no_check(d) ==
    LET filled == [k \in DOMAIN d |-> IF d[k] = None THEN Some(0) ELSE d[k]]
    IN  IF \A k \in DOMAIN d : d[k] = None
        THEN [caller |-> d, err |-> None,
              ret |-> Some([k \in DOMAIN d |-> Some(DefaultWeight)])]
        ELSE [caller |-> filled, ret |-> Some(filled), err |-> None]

\* set_weights_from_args(args_dict): what it returns or raises, and the
\* caller's dict object after the call (the loop assigns into it in place;
\* only the all-None branch rebinds the local name to a fresh dict)
set_weights_from_args(d) ==
    LET no_values_set == \A k \in DOMAIN d : d[k] = None
        filled == [k \in DOMAIN d |-> IF d[k] = None THEN Some(0) ELSE d[k]]
        explicit == {k \in DOMAIN d : d[k] # None}
        sum_of_weights == SumOver(explicit, [k \in explicit |-> d[k][1]])
    IN  IF no_values_set
        THEN [caller |-> d, err |-> None,
              ret |-> Some([k \in DOMAIN d |-> Some(DefaultWeight)])]
        ELSE IF sum_of_weights # One
        THEN [caller |-> filled, ret |-> None,
              err |-> Some([type |-> "PyvolcansError", msg |-> WeightSumMsg,
                            sum |-> sum_of_weights])]
        ELSE [caller |-> filled, ret |-> Some(filled), err |-> None]

SetWeightsFromArgs ==
    /\ pc = "start"
    /\ LET r == set_weights_from_args(args_dict)
       IN  /\ args_dict' = r.caller
           /\ ret' = r.ret
           /\ err' = r.err
    /\ call' = [fn |-> "set_weights_from_args", args_dict |-> args_dict]
    /\ pc' = "weights"
    /\ UNCHANGED <<VOLCANO_NAMES, ANALOGY_MATRIX, weighted_analogy_matrix>>

NoCall == [fn |-> "none"]
NoCatalogue == [i \in {} |-> None]
NoMatrix == [i \in {} |-> None]

InitWeights ==
    /\ args_dict \in [Criteria -> OptWeights]
    /\ VOLCANO_NAMES = NoCatalogue
    /\ ANALOGY_MATRIX = [c \in Criteria |-> NoMatrix]
    /\ weighted_analogy_matrix = NoMatrix
    /\ call = NoCall
    /\ ret = None
    /\ err = None
    /\ pc = "start"

NextWeights == SetWeightsFromArgs

SpecWeights == InitWeights /\ [][NextWeights]_vars

WeightSumError(e) == e # None /\ e[1].type = "PyvolcansError" /\ e[1].msg = WeightSumMsg

NormalizerCalled == pc = "weights" /\ call.fn = "set_weights_from_args"

\* the sum of the explicit values of a mapping, computed independently
ExplicitSum(d) ==
    SumOver(Criteria, [k \in Criteria |-> IF d[k] = None THEN 0 ELSE d[k][1]])

\* C4: after set_weights_from_args, (i) an all-absent mapping gives 0.2 for
\* every criterion; (ii) otherwise, explicit values summing to exactly 1 are
\* returned as given with 0 for every absent one; (iii) any other sum raises
\* the weight-sum error carrying the computed sum, and nothing is returned.
C4_Normalizer ==
    NormalizerCalled =>
        LET d == call.args_dict
            allAbsent == \A k \in Criteria : d[k] = None
        IN  /\ allAbsent =>
                /\ err = None
                /\ ret = Some([k \in Criteria |-> Some(DefaultWeight)])
            /\ (~allAbsent /\ ExplicitSum(d) = One) =>
                /\ err = None
                /\ ret # None
                /\ \A k \in Criteria :
                      ret[1][k] = IF d[k] = None THEN Some(0) ELSE d[k]
            /\ (~allAbsent /\ ExplicitSum(d) # One) =>
                /\ ret = None
                /\ WeightSumError(err)
                /\ err[1].sum = ExplicitSum(d)

\* C4 witness: a partial mapping whose explicit values (two of 0.5) sum to 1
\* was accepted, an absent criterion coming back as 0
C4_Witness ==
    /\ NormalizerCalled
    /\ \E k \in Criteria : call.args_dict[k] = None
    /\ \E k \in Criteria : call.args_dict[k] = Some(One \div 2)
    /\ ret # None
    /\ \E k \in Criteria : ret[1][k] = Some(0) /\ call.args_dict[k] = None

\* C5: set_weights_from_args has no side effect: the caller's mapping is the
\* same after the call as before it, on return and on failure.
C5_Pure ==
    NormalizerCalled => args_dict = call.args_dict

---------------------------------------------------------------------------
(* Weighted Analogy Combiner *)

\* weight * matrix and matrix + matrix, cell by cell (numpy broadcasting)
Scale(w, M) == [i \in DOMAIN M |-> [j \in DOMAIN M[i] |-> w * M[i][j]]]
MatAdd(A, B) == [i \in DOMAIN A |-> [j \in DOMAIN A[i] |-> A[i][j] + B[i][j]]]

\* faulty variant: the eruption style term is left out of the total
calculate_without_style(weights, analogies) ==
    MatAdd(MatAdd(MatAdd(
        Scale(weights["tectonic_setting"][1], analogies["tectonic_setting"]),
        Scale(weights["geochemistry"][1], analogies["geochemistry"])),
        Scale(weights["morphology"][1], analogies["morphology"])),
        Scale(weights["eruption_size"][1], analogies["eruption_size"]))

\* calculate_weighted_analogy_matrix(weights, analogies), every weight a number
calculate_weighted_analogy_matrix(weights, analogies) ==
    LET weighted_tectonic_analogy ==
            Scale(weights["tectonic_setting"][1], analogies["tectonic_setting"])
        weighted_geochemistry_analogy ==
            Scale(weights["geochemistry"][1], analogies["geochemistry"])
        weighted_morphology_analogy ==
            Scale(weights["morphology"][1], analogies["morphology"])
        weighted_eruption_size_analogy ==
            Scale(weights["eruption_size"][1], analogies["eruption_size"])
        weighted_eruption_style_analogy ==
            Scale(weights["eruption_style"][1], analogies["eruption_style"])
    IN  MatAdd(MatAdd(MatAdd(MatAdd(weighted_tectonic_analogy,
                                    weighted_geochemistry_analogy),
                             weighted_morphology_analogy),
                      weighted_eruption_size_analogy),
               weighted_eruption_style_analogy)

\* the call with the given weights: None * ndarray raises TypeError
Calculate(fn, weights) ==
    /\ call' = [fn |-> fn, weights |-> weights]
    /\ IF \E k \in Criteria : weights[k] = None
       THEN /\ err' = Some([type |-> "TypeError", msg |-> "unsupported operand"])
            /\ ret' = None
            /\ UNCHANGED weighted_analogy_matrix
       ELSE /\ err' = None
            /\ weighted_analogy_matrix' =
                   calculate_weighted_analogy_matrix(weights, ANALOGY_MATRIX)
            /\ ret' = Some(weighted_analogy_matrix')
    /\ pc' = "done"
    /\ UNCHANGED <<VOLCANO_NAMES, ANALOGY_MATRIX, args_dict>>

\* the pipeline: the combiner is given what the normaliser returned
CalculateFromNormalizer ==
    /\ pc = "weights"
    /\ ret # None
    /\ Calculate("pipeline", ret[1])

\* a caller hands its mapping to the combiner without normalising it
CalculateDirect ==
    /\ pc = "start"
    /\ Calculate("direct", args_dict)

CombRows == 0 .. (Dim - 1)

\* single-criterion matrices: square, symmetric, 1.0 on the diagonal, and
\* off the diagonal either 0.5 everywhere, or 1.0 next to the diagonal and 0
\* elsewhere
OffDiagonal(kind, i, j) ==
    IF kind = "half" THEN One \div 2
    ELSE IF Abs(i - j) = 1 THEN One ELSE 0

MatrixFamily ==
    { [i \in CombRows |-> [j \in CombRows |->
          IF i = j THEN One ELSE OffDiagonal(kind, i, j)]] :
      kind \in {"half", "band"} }

InitCombine ==
    /\ args_dict \in [Criteria -> OptWeights]
    /\ ANALOGY_MATRIX \in [Criteria -> MatrixFamily]
    /\ VOLCANO_NAMES = NoCatalogue
    /\ weighted_analogy_matrix = NoMatrix
    /\ call = NoCall
    /\ ret = None
    /\ err = None
    /\ pc = "start"

NextCombine ==
    \/ SetWeightsFromArgs
    \/ CalculateFromNormalizer
    \/ CalculateDirect

SpecCombine == InitCombine /\ [][NextCombine]_vars

Combined == pc = "done" /\ call.fn \in {"pipeline", "direct"} /\ err = None

\* C6: every cell of the combined matrix is the sum over the five criteria
\* of weight times that criterion's cell; with weights (1,0,0,0,0) it is the
\* tectonic-setting matrix; and a matrix is returned whatever the weights
\* sum to (the combiner validates nothing).
C6_Combiner ==
    /\ (pc = "done" /\ call.fn = "direct" /\ \A k \in Criteria : call.weights[k] # None)
          => err = None
    /\ Combined =>
          /\ ret = Some(weighted_analogy_matrix)
          /\ DOMAIN weighted_analogy_matrix = CombRows
          /\ \A i \in CombRows :
               /\ DOMAIN weighted_analogy_matrix[i] = CombRows
               /\ \A j \in CombRows :
                    weighted_analogy_matrix[i][j] =
                        SumOver(Criteria, [c \in Criteria |->
                            call.weights[c][1] * ANALOGY_MATRIX[c][i][j]])
          /\ (/\ call.weights["tectonic_setting"] = Some(One)
              /\ \A c \in Criteria \ {"tectonic_setting"} : call.weights[c] = Some(0))
             => \A i, j \in CombRows :
                   weighted_analogy_matrix[i][j] =
                       One * ANALOGY_MATRIX["tectonic_setting"][i][j]

\* C6 witness: a matrix was returned for weights that do not sum to 1, and
\* the eruption style term contributed to a cell
C6_Witness ==
    /\ Combined
    /\ call.fn = "direct"
    /\ ExplicitSum(call.weights) # One
    /\ call.weights["eruption_style"] = Some(One \div 2)
    /\ \E i, j \in CombRows : i # j /\ weighted_analogy_matrix[i][j] > 0

\* C10: whatever set_weights_from_args accepts is non-negative and sums to 1,
\* so every cell combined from it out of matrices in [0,1] is in [0,1].
C10_Pipeline ==
    (Combined /\ call.fn = "pipeline") =>
        /\ \A k \in Criteria : call.weights[k][1] >= 0
        /\ ExplicitSum(call.weights) = One
        /\ \A i, j \in CombRows :
              /\ weighted_analogy_matrix[i][j] >= 0
              /\ weighted_analogy_matrix[i][j] <= One * One

---------------------------------------------------------------------------
(* Catalogue Index *)

Rows == 0 .. (NVolc - 1)

AllNames == <<"Asama", "Bezymianny", "Colima", "Dukono", "Etna", "Fuego">>
Names == {AllNames[k] : k \in 1 .. NVolc}
\* a name no catalogue row has
Unknown == "Zz"

\* the Smithsonian number of row i (unique, and never a row index)
Vnum(i) == 210010 + 10 * i
\* numbers a caller may ask for: every row's, and two that no row has
AskedNumbers == {Vnum(i) : i \in Rows} \cup {0, 1}

Row(name, i) == [name |-> name, country |-> "Country", smithsonian_id |-> Vnum(i)]

\* every catalogue of NVolc rows over the names (names may repeat)
Catalogues == { [i \in Rows |-> Row(f[i], i)] : f \in [Rows -> Names] }

SetMin(S) == CHOOSE x \in S : \A y \in S : x <= y

\* VOLCANO_NAMES.loc[VOLCANO_NAMES[0] == volcano_name]: the matching rows
Matching(cat, volcano_name) == {i \in DOMAIN cat : cat[i].name = volcano_name}

\* faulty variant: duplicate names are not rejected (the first match is used)
match_name_first(cat, volcano_name) ==
    LET matched_volcanoes == Matching(cat, volcano_name)
    IN  IF Cardinality(matched_volcanoes) = 0
        THEN [ret |-> None, err |-> Some(PyvolcansError("not found! Did you mean"))]
        ELSE [ret |-> Some(matched_volcanoes), err |-> None]

\* match_name(volcano_name) on catalogue cat: the matched rows, or the error
match_name(cat, volcano_name) ==
    LET matched_volcanoes == Matching(cat, volcano_name)
    IN  IF Cardinality(matched_volcanoes) = 0
        THEN [ret |-> None, err |-> Some(PyvolcansError("not found! Did you mean"))]
        ELSE IF Cardinality(matched_volcanoes) > 1
        THEN [ret |-> None, err |-> Some(PyvolcansError("is not unique"))]
        ELSE [ret |-> Some(matched_volcanoes), err |-> None]

\* get_volcano_idx_from_name: matched_volcanoes.index[0]
get_volcano_idx_from_name(cat, volcano_name) ==
    LET m == match_name(cat, volcano_name)
    IN  IF m.err # None THEN [ret |-> None, err |-> m.err]
        ELSE [ret |-> Some(SetMin(m.ret[1])), err |-> None]

\* get_volcano_number_from_name: matched_volcanoes.iloc[0, 2]
get_volcano_number_from_name(cat, volcano_name) ==
    LET m == match_name(cat, volcano_name)
    IN  IF m.err # None THEN [ret |-> None, err |-> m.err]
        ELSE [ret |-> Some(cat[SetMin(m.ret[1])].smithsonian_id), err |-> None]

\* get_volcano_idx_from_number: the first row with that number
get_volcano_idx_from_number(cat, volcano_number) ==
    LET volcano_idx == {i \in DOMAIN cat : cat[i].smithsonian_id = volcano_number}
    IN  IF volcano_idx = {}
        THEN [ret |-> None, err |-> Some(PyvolcansError("Volcano number does not exist."))]
        ELSE [ret |-> Some(SetMin(volcano_idx)), err |-> None]

\* get_volcano_name_from_idx: VOLCANO_NAMES.iloc[volcano_idx, 0].  A
\* positional index k is accepted when -size <= k < size, a negative one
\* counting from the end; anything else raises pandas' IndexError
get_volcano_name_from_idx(cat, volcano_idx) ==
    LET size == Cardinality(DOMAIN cat)
    IN  IF volcano_idx >= size \/ volcano_idx < 0 - size
        THEN [ret |-> None,
              err |-> Some([type |-> "IndexError",
                            msg |-> "single positional indexer is out-of-bounds"])]
        ELSE IF volcano_idx < 0
        THEN [ret |-> Some(cat[size + volcano_idx].name), err |-> None]
        ELSE [ret |-> Some(cat[volcano_idx].name), err |-> None]

\* a call made from the start state ends with what it returned or raised
Finish(c, r) ==
    /\ call' = c
    /\ ret' = r.ret
    /\ err' = r.err
    /\ pc' = "done"
    /\ UNCHANGED <<VOLCANO_NAMES, ANALOGY_MATRIX, weighted_analogy_matrix, args_dict>>

MatchName ==
    /\ pc = "start"
    /\ \E n \in Names \cup {Unknown} :
           Finish([fn |-> "match_name", volcano_name |-> n],
                  match_name(VOLCANO_NAMES, n))

GetVolcanoIdxFromName ==
    /\ pc = "start"
    /\ \E n \in Names \cup {Unknown} :
           Finish([fn |-> "get_volcano_idx_from_name", volcano_name |-> n],
                  get_volcano_idx_from_name(VOLCANO_NAMES, n))

GetVolcanoNumberFromName ==
    /\ pc = "start"
    /\ \E n \in Names \cup {Unknown} :
           Finish([fn |-> "get_volcano_number_from_name", volcano_name |-> n],
                  get_volcano_number_from_name(VOLCANO_NAMES, n))

GetVolcanoIdxFromNumber ==
    /\ pc = "start"
    /\ \E v \in AskedNumbers :
           Finish([fn |-> "get_volcano_idx_from_number", volcano_number |-> v],
                  get_volcano_idx_from_number(VOLCANO_NAMES, v))

GetVolcanoNameFromIdx ==
    /\ pc = "start"
    /\ \E k \in (0 - (NVolc + 1)) .. (NVolc + 1) :
           Finish([fn |-> "get_volcano_name_from_idx", volcano_idx |-> k],
                  get_volcano_name_from_idx(VOLCANO_NAMES, k))

InitIndex ==
    /\ VOLCANO_NAMES \in Catalogues
    /\ ANALOGY_MATRIX = [c \in Criteria |-> NoMatrix]
    /\ weighted_analogy_matrix = NoMatrix
    /\ args_dict = [c \in Criteria |-> None]
    /\ call = NoCall
    /\ ret = None
    /\ err = None
    /\ pc = "start"

NextIndex ==
    \/ MatchName
    \/ GetVolcanoIdxFromName
    \/ GetVolcanoNumberFromName
    \/ GetVolcanoIdxFromNumber
    \/ GetVolcanoNameFromIdx

SpecIndex == InitIndex /\ [][NextIndex]_vars

AmbiguousNameError(e) ==
    /\ e # None
    /\ e[1].type = "PyvolcansError"
    /\ e[1].msg \in {"not found! Did you mean", "is not unique"}

\* the rows of the catalogue that carry the name, counted independently
RowsNamed(n) == {i \in Rows : VOLCANO_NAMES[i].name = n}

\* C7: a name lookup returns a row index exactly when one catalogue row has
\* that name, and then that row's index; a name of no row or of several rows
\* raises the ambiguous-name error and returns nothing.
C7_NameLookup ==
    /\ (pc = "done" /\ call.fn = "get_volcano_idx_from_name") =>
          LET hits == RowsNamed(call.volcano_name)
          IN  /\ (ret # None) <=> (Cardinality(hits) = 1)
              /\ (ret # None) => (err = None /\ hits = {ret[1]})
              /\ (ret = None) => AmbiguousNameError(err)
    /\ (pc = "done" /\ call.fn = "match_name") =>
          LET hits == RowsNamed(call.volcano_name)
          IN  /\ (ret # None) <=> (Cardinality(hits) = 1)
              /\ (ret # None) => (err = None /\ ret[1] = hits)
              /\ (ret = None) => AmbiguousNameError(err)

\* C7 witness: a name carried by two rows was refused as not unique
C7_Witness ==
    /\ pc = "done"
    /\ call.fn = "get_volcano_idx_from_name"
    /\ Cardinality(RowsNamed(call.volcano_name)) = 2
    /\ ret = None
    /\ err # None
    /\ err[1].msg = "is not unique"

\* C8: the reverse lookup returns the name of row k for 0 <= k < size and
\* raises for every other index (negative ones and k = size included); it
\* never returns the name of another row.
C8_ReverseLookup ==
    (pc = "done" /\ call.fn = "get_volcano_name_from_idx") =>
        IF call.volcano_idx \in Rows
        THEN err = None /\ ret = Some(VOLCANO_NAMES[call.volcano_idx].name)
        ELSE ret = None /\ err # None

---------------------------------------------------------------------------
(* Analogue Ranker *)

\* catalogues of the ranking and percentile models: all names different, or
\* rows 0 and 1 sharing a name
UniqueCatalogue == [i \in Rows |-> Row(AllNames[i + 1], i)]
DuplicateCatalogue == [i \in Rows |-> Row(AllNames[IF i = 1 THEN 1 ELSE i + 1], i)]
CatalogueFamily == {UniqueCatalogue, DuplicateCatalogue}

\* names a caller may give: row 0's, the last row's, and an unknown one
AskedNames == {AllNames[1], AllNames[NVolc], Unknown}

\* a volcano given by name (str) or by Smithsonian number (int); the field
\* of the other kind is unused
Identities ==
    {[kind |-> "str", name |-> n, number |-> 0] : n \in AskedNames}
    \cup {[kind |-> "int", name |-> "", number |-> v] : v \in AskedNumbers}

\* combined matrices: symmetric, values 0, 0.5 or 1, 1.0 on the diagonal
Pairs == {<<i, j>> \in Rows \X Rows : i < j}
WeightedMatrices ==
    { [i \in Rows |-> [j \in Rows |->
          IF i = j THEN One ELSE f[<<Min(i, j), Max(i, j)>>]]] :
      f \in [Pairs -> {0, One \div 2, One}] }

\* row.argsort(): the index arrays an ascending sort may produce.  The
\* default sort is not stable, so equal values may come in any order.
ArgsortOutcomes(row) ==
    LET n == Cardinality(DOMAIN row)
        ascending == { p \in Permutations(DOMAIN row) :
                         \A a \in 0 .. (n - 2) : row[p[a]] <= row[p[a + 1]] }
    IN  { [k \in 1 .. n |-> p[k - 1]] : p \in ascending }

\* s[start:] with Python's slice rules (a negative start counts from the end)
PySliceFrom(s, start) ==
    LET n == Len(s)
        b == IF start < 0 THEN Max(n + start, 0) ELSE Min(start, n)
    IN  SubSeq(s, b + 1, n)

\* s[::-1]
Reversed(s) == [k \in 1 .. Len(s) |-> s[Len(s) + 1 - k]]

\* faulty variant: the reversal [::-1] is forgotten
top_idx_ascending(order, count) == PySliceFrom(order, 0 - count)

\* my_volcano_analogies.argsort()[-count:][::-1], count already incremented
top_idx_of(order, count) == Reversed(PySliceFrom(order, 0 - count))

\* get_analogies(my_volcano, weighted_analogy_matrix, count): every outcome
\* it may have.  result is the table written to standard output and to the
\* csv file; top_analogue_vnum is the number whose web page is opened.
get_analogies(cat, my_volcano, M, count0) ==
    LET r == IF my_volcano.kind = "str"
             THEN get_volcano_idx_from_name(cat, my_volcano.name)
             ELSE get_volcano_idx_from_number(cat, my_volcano.number)
    IN  IF r.err # None THEN {[ret |-> None, err |-> r.err]}
        ELSE
          LET volcano_idx == r.ret[1]
              my_volcano_analogies == M[volcano_idx]
              count == count0 + 1
          IN  { LET top_idx == top_idx_of(order, count)
                    result == [k \in 1 .. Len(top_idx) |->
                        [smithsonian_id |-> cat[top_idx[k]].smithsonian_id,
                         name |-> cat[top_idx[k]].name,
                         country |-> cat[top_idx[k]].country,
                         analogy_score |-> my_volcano_analogies[top_idx[k]]]]
                IN  IF Len(top_idx) < 2
                    THEN [ret |-> Some([volcano_idx |-> volcano_idx,
                                        result |-> result,
                                        top_analogue_vnum |-> None]),
                          err |-> Some([type |-> "IndexError",
                                        msg |-> "index 1 is out of bounds"])]
                    ELSE [ret |-> Some([volcano_idx |-> volcano_idx,
                                        result |-> result,
                                        top_analogue_vnum |->
                                            Some(cat[top_idx[2]].smithsonian_id)]),
                          err |-> None]
                : order \in ArgsortOutcomes(my_volcano_analogies) }

GetAnalogies ==
    /\ pc = "start"
    /\ \E my_volcano \in Identities, count \in (0 - 1) .. MaxCount :
           \E o \in get_analogies(VOLCANO_NAMES, my_volcano,
                                  weighted_analogy_matrix, count) :
               Finish([fn |-> "get_analogies", my_volcano |-> my_volcano,
                       count |-> count], o)

InitRank ==
    /\ VOLCANO_NAMES \in CatalogueFamily
    /\ weighted_analogy_matrix \in WeightedMatrices
    /\ ANALOGY_MATRIX = [c \in Criteria |-> NoMatrix]
    /\ args_dict = [c \in Criteria |-> None]
    /\ call = NoCall
    /\ ret = None
    /\ err = None
    /\ pc = "start"

NextRank == GetAnalogies

SpecRank == InitRank /\ [][NextRank]_vars

\* the ranker resolved its target and wrote a result table
Ranked == pc = "done" /\ call.fn = "get_analogies" /\ ret # None

NonIncreasing(result) ==
    \A k \in 1 .. (Len(result) - 1) :
        result[k].analogy_score >= result[k + 1].analogy_score

NoDuplicateIds(result) ==
    \A a, b \in 1 .. Len(result) :
        a # b => result[a].smithsonian_id # result[b].smithsonian_id

\* C1: with entries in [0,1] and 1.0 on the diagonal, row 0 of the ranked
\* result is the target itself with score 1.0, so the entry at position 1,
\* whose page is opened as the top analogue, is never the target.
C1_TargetFirst ==
    (Ranked /\ call.count >= 0) =>
        LET target == VOLCANO_NAMES[ret[1].volcano_idx].smithsonian_id
        IN  /\ ret[1].result[1].smithsonian_id = target
            /\ ret[1].result[1].analogy_score = One
            /\ ret[1].top_analogue_vnum # Some(target)

\* C2 as stated: the result has exactly N+1 rows, in non-increasing order of
\* score, and no catalogue id twice.
C2_ExactlyCountPlusOne ==
    (Ranked /\ call.count >= 0) =>
        /\ Len(ret[1].result) = call.count + 1
        /\ NonIncreasing(ret[1].result)
        /\ NoDuplicateIds(ret[1].result)

\* C2 as amended: for a requested count N >= 0 the result has N+1 rows, or
\* every catalogue row when the catalogue has fewer than N+1; it is in
\* non-increasing order of score and holds no catalogue id twice.
C2_RowsOrderedDistinct ==
    Ranked =>
        /\ call.count >= 0 =>
              Len(ret[1].result) = Min(call.count + 1, Cardinality(DOMAIN VOLCANO_NAMES))
        /\ NonIncreasing(ret[1].result)
        /\ NoDuplicateIds(ret[1].result)

\* C2 witness: more analogues were asked for than the catalogue has rows,
\* and every row came back once, the scores falling from first to last
C2_Witness ==
    /\ Ranked
    /\ call.count + 1 > Cardinality(DOMAIN VOLCANO_NAMES)
    /\ Len(ret[1].result) = Cardinality(DOMAIN VOLCANO_NAMES)
    /\ ret[1].result[1].analogy_score > ret[1].result[Len(ret[1].result)].analogy_score

---------------------------------------------------------------------------
(* Percentile Evaluator *)

\* the values of a row in ascending order (np.percentile sorts its input)
SortedValues(row) ==
    LET order == CHOOSE p \in ArgsortOutcomes(row) : TRUE
    IN  [k \in 1 .. Len(order) |-> row[order[k]]]

\* np.percentile(values, np.linspace(0, 100, 101), interpolation='midpoint')
\* of the ascending values a, doubled so that it stays an integer: the
\* virtual index of percentile q is q/100 * (n-1); on an order statistic the
\* percentile is that value, between two it is their arithmetic mean
Percentiles2(a) ==
    [q \in 0 .. PctMax |->
        LET pos == q * (Len(a) - 1)
            below == pos \div PctMax
            above == IF pos % PctMax = 0 THEN below ELSE below + 1
        IN  a[below + 1] + a[above + 1]]

\* (np.abs(analogy_percentiles - value)).argmin(): the first percentile at
\* the least distance
ArgminAbs(a, value) ==
    LET pcts == Percentiles2(a)
        dist == {<<q, Abs(pcts[q] - 2 * value)>> : q \in 0 .. PctMax}
        least == SetMin({d[2] : d \in dist})
    IN  SetMin({d[1] : d \in {e \in dist : e[2] = least}})

\* get_analogy_percentile(my_volcano, apriori_volcano, weighted_analogy_matrix)
get_analogy_percentile(cat, my_volcano, apriori_volcano, M) ==
    LET my == get_volcano_idx_from_name(cat, my_volcano)
        ap == get_volcano_idx_from_name(cat, apriori_volcano)
    IN  IF my.err # None THEN [ret |-> None, err |-> my.err]
        ELSE IF ap.err # None THEN [ret |-> None, err |-> ap.err]
        ELSE LET my_analogy_values == M[my.ret[1]]
                 analogy_percentiles == SortedValues(my_analogy_values)
                 my_percentile ==
                     ArgminAbs(analogy_percentiles, my_analogy_values[ap.ret[1]])
             IN  [ret |-> Some(my_percentile), err |-> None]

\* dict[key] = value
DictSet(d, key, value) ==
    [x \in DOMAIN d \cup {key} |-> IF x = key THEN value ELSE d[x]]

EmptyDict == [x \in {} |-> 0]

RECURSIVE ManyLoop(_, _, _, _, _, _, _)
\* the loop over apriori_volcanoes_list from position k on; calls counts
\* the calls of get_analogy_percentile made so far
ManyLoop(cat, my_volcano, lst, M, k, dicts, calls) ==
    IF k > Len(lst)
    THEN [ret |-> Some(dicts), err |-> None, calls |-> calls]
    ELSE LET volcano == lst[k]
             p == get_analogy_percentile(cat, my_volcano, volcano, M)
         IN  IF p.err # None
             THEN [ret |-> None, err |-> p.err, calls |-> calls + 1]
             ELSE ManyLoop(cat, my_volcano, lst, M, k + 1,
                      [percentile_dictionary |->
                           DictSet(dicts.percentile_dictionary, volcano, p.ret[1]),
                       better_analogues_dictionary |->
                           DictSet(dicts.better_analogues_dictionary, volcano,
                                   PctMax - p.ret[1])],
                      calls + 1)

\* faulty variant: the isinstance check is missing, and a bare name is taken as a
\* list of that one name
get_many_unchecked(cat, my_volcano, apriori, M) ==
    ManyLoop(cat, my_volcano,
             IF apriori.kind = "list" THEN apriori.list ELSE <<apriori.name>>, M, 1,
             [percentile_dictionary |-> EmptyDict,
              better_analogues_dictionary |-> EmptyDict], 0)

\* get_many_analogy_percentiles(my_volcano, apriori_volcanoes_list, matrix);
\* apriori is a list of names, or a bare name (a str, not a list)
get_many_analogy_percentiles(cat, my_volcano, apriori, M) ==
    IF apriori.kind # "list"
    THEN [ret |-> None, calls |-> 0,
          err |-> Some(PyvolcansError("A priori volcanoes should be a list!"))]
    ELSE ManyLoop(cat, my_volcano, apriori.list, M, 1,
                  [percentile_dictionary |-> EmptyDict,
                   better_analogues_dictionary |-> EmptyDict], 0)

RECURSIVE SeqsUpTo(_, _)
\* the sequences over S of length at most n
SeqsUpTo(S, n) ==
    IF n = 0 THEN {<<>>}
    ELSE LET shorter == SeqsUpTo(S, n - 1)
         IN  shorter \cup {Append(q, x) : q \in shorter, x \in S}

\* the names a list of a priori volcanoes is made of: row 0's and the last
\* row's
ListedNames == {AllNames[1], AllNames[NVolc]}

\* the a priori argument: a list of names (names may repeat), or a bare name
\* (a str, not a list); the field of the other kind is unused
AprioriArgs ==
    {[kind |-> "list", list |-> l, name |-> ""] : l \in SeqsUpTo(ListedNames, MaxList)}
    \cup {[kind |-> "str", list |-> <<>>, name |-> n] : n \in ListedNames}

GetAnalogyPercentile ==
    /\ pc = "start"
    /\ \E my_volcano \in AskedNames, apriori_volcano \in AskedNames :
           Finish([fn |-> "get_analogy_percentile", my_volcano |-> my_volcano,
                   apriori_volcano |-> apriori_volcano],
                  get_analogy_percentile(VOLCANO_NAMES, my_volcano, apriori_volcano,
                                         weighted_analogy_matrix))

GetManyAnalogyPercentiles ==
    /\ pc = "start"
    /\ \E my_volcano \in AskedNames, apriori \in AprioriArgs :
           LET r == get_many_analogy_percentiles(VOLCANO_NAMES, my_volcano, apriori,
                                                 weighted_analogy_matrix)
           IN  Finish([fn |-> "get_many_analogy_percentiles",
                       my_volcano |-> my_volcano, apriori |-> apriori,
                       calls |-> r.calls],
                      [ret |-> r.ret, err |-> r.err])

NextPercentile ==
    \/ GetAnalogyPercentile
    \/ GetManyAnalogyPercentiles

SpecPercentile == InitRank /\ [][NextPercentile]_vars

RowMax(row) == CHOOSE m \in {row[j] : j \in DOMAIN row} :
                   \A j \in DOMAIN row : row[j] <= m

\* C3: where the target's similarity to itself is the maximum of its row
\* (ties allowed), the percentile of the target against itself is 100.
C3_SelfPercentile ==
    (/\ pc = "done"
     /\ call.fn = "get_analogy_percentile"
     /\ call.my_volcano = call.apriori_volcano
     /\ ret # None)
    => LET idx == SetMin(RowsNamed(call.my_volcano))
           row == weighted_analogy_matrix[idx]
       IN  row[idx] = RowMax(row) => ret = Some(PctMax)

ManyCalled == pc = "done" /\ call.fn = "get_many_analogy_percentiles"

ListNames(l) == {l[k] : k \in 1 .. Len(l)}

\* what is common to C9 as stated and as amended: each percentile is that of
\* get_analogy_percentile, each better-analogues value is 100 minus it, and
\* an argument that is not a list raises before any percentile is computed
ManyValues ==
    /\ (ManyCalled /\ ret # None) =>
          \A n \in DOMAIN ret[1].percentile_dictionary :
              /\ Some(ret[1].percentile_dictionary[n]) =
                     get_analogy_percentile(VOLCANO_NAMES, call.my_volcano, n,
                                            weighted_analogy_matrix).ret
              /\ ret[1].better_analogues_dictionary[n] =
                     PctMax - ret[1].percentile_dictionary[n]
    /\ (ManyCalled /\ call.apriori.kind # "list") =>
          /\ ret = None
          /\ err = Some(PyvolcansError("A priori volcanoes should be a list!"))
          /\ call.calls = 0

\* C9 as stated: as many percentiles are returned as the list has entries.
C9_OnePerEntry ==
    /\ ManyValues
    /\ (ManyCalled /\ ret # None) =>
          /\ Cardinality(DOMAIN ret[1].percentile_dictionary) = Len(call.apriori.list)
          /\ Cardinality(DOMAIN ret[1].better_analogues_dictionary) = Len(call.apriori.list)

\* C9 as amended: one percentile and one better-analogues value is returned
\* for each different name of the list, the names being the keys.
C9_OnePerName ==
    /\ ManyValues
    /\ (ManyCalled /\ ret # None) =>
          /\ DOMAIN ret[1].percentile_dictionary = ListNames(call.apriori.list)
          /\ DOMAIN ret[1].better_analogues_dictionary = ListNames(call.apriori.list)

\* C9 witness: a list naming one volcano twice was answered
C9_Witness ==
    /\ ManyCalled
    /\ ret # None
    /\ Len(call.apriori.list) = 2
    /\ call.apriori.list[1] = call.apriori.list[2]
    /\ call.calls = 2
    /\ \E n \in DOMAIN ret[1].percentile_dictionary :
           ret[1].percentile_dictionary[n] < PctMax

=============================================================================
